---- MODULE Spec2Model ----
(***************************************************************************)
(* TogglService (src/src/services/toggl/TogglService.ts): the remote       *)
(* mapping layer and the time tracking client of el-toggl.                 *)
(*                                                                         *)
(* Every operation of the service is an async function with one await on   *)
(* the HTTP request.  An operation is therefore two steps: the step that   *)
(* issues the request ("...Issue") and the step that runs when the request *)
(* settles ("...Settle"), which executes the rest of the function body     *)
(* without interruption (JavaScript is single threaded).  Requests in      *)
(* flight settle in any order.                                             *)
(* The development delay that fetchUser and fetchTimeEntriesOfDay may      *)
(* await before their request changes no state and belongs to the Issue    *)
(* step.  A rejected request and an error thrown by the function body      *)
(* reach the caller as a raised error unless the body catches them; an     *)
(* error thrown inside the updater of a store leaves that store as it was. *)
(*                                                                         *)
(* JavaScript values: objects are records, arrays are sequences, null and  *)
(* undefined are the records Null and Undefined.  An array that travels in *)
(* a slot that may also hold null or an object is wrapped by Arr.  A       *)
(* string slot that may hold null/undefined uses NullStr/UndefStr.  A Date *)
(* is its time value in minutes since the epoch (UTC), NaN for an Invalid  *)
(* Date.  A key is absent from an object iff it is not in the DOMAIN of    *)
(* the record.                                                             *)
(***************************************************************************)
EXTENDS Integers, Sequences, FiniteSets, Bags, TLC

VARIABLES
  user,          \* TogglStore.user
  clients,       \* TogglStore.clients
  projects,      \* TogglStore.projects
  booking,       \* TimeBookingStore state
  inflight,      \* bag of the requests awaiting their response
  instance,      \* TogglService.instance: 0 while unset, else the object
  token,         \* _token of every TogglService object constructed
  ev             \* history: the last step as the caller observes it

vars == <<user, clients, projects, booking, inflight, instance, token, ev>>

stores == <<user, clients, projects, booking>>

singleton == <<instance, token>>

---------------------------------------------------------------------------
(* Bounds *)

\* longest array in a remote response
MaxList == 2

\* most requests in flight at the same time
MaxInflight == 2

---------------------------------------------------------------------------
(* JavaScript values *)

Null == [null |-> TRUE]

Undefined == [undefined |-> TRUE]

NullStr == "<null>"

UndefStr == "<undefined>"

NaN == 0 - 1

NoId == 0

Arr(s) == [array |-> s]

IsArr(v) == DOMAIN v = {"array"}

\* loose comparison: v == null
LooseNull(v) == v = Null \/ v = Undefined

\* a listing of records of the remote: every sequence of at most n
\* different elements of S
SeqUpTo(S, n) ==
  {l \in UNION {[1..k -> S] : k \in 0..n} :
     \A i, j \in 1..Len(l) : i # j => l[i] # l[j]}

\* Array.prototype.find with the predicate "x.id === id"
FindById(s, id) ==
  IF \E i \in 1..Len(s) : s[i].id = id
  THEN s[CHOOSE i \in 1..Len(s) :
           /\ s[i].id = id
           /\ \A j \in 1..(i - 1) : s[j].id # id]
  ELSE Undefined

\* wire timestamps the remote sends, with the time value Date parses them to
DateTable ==
  ("1970-01-01T08:15:00Z" :> 495) @@
  ("1970-01-01T09:00:00Z" :> 540) @@
  ("1970-01-01T10:30:00Z" :> 630) @@
  ("1970-01-02T08:15:00Z" :> 1935)

WireDates == DOMAIN DateTable

\* new Date(v): null is the epoch, undefined and unparsable strings are
\* Invalid Date
NewDate(v) ==
  IF v = NullStr THEN 0
  ELSE IF v = UndefStr THEN NaN
  ELSE IF v \in WireDates THEN DateTable[v]
  ELSE NaN

Digit == <<"0", "1", "2", "3", "4", "5", "6", "7", "8", "9">>

TwoDigits(n) == Digit[(n \div 10) + 1] \o Digit[(n % 10) + 1]

\* services/date formatTime: the time of day as HH:mm
formatTime(d) == TwoDigits((d % 1440) \div 60) \o ":" \o TwoDigits(d % 60)

---------------------------------------------------------------------------
(* Wire records of the remote *)

WireUsers ==
  {[default_workspace_id |-> 10, email |-> "a@example.org", id |-> 1]}

WireClients == {[id |-> 2, name |-> "Client B"]}

\* "Beta" and "alpha": the locale order and the code unit order differ;
\* two projects share a name; client 1 is not a client of the remote
WireProjects ==
  {[id |-> 1, name |-> "Beta", color |-> "#111111", client_id |-> 2,
    workspace_id |-> 10],
   [id |-> 2, name |-> "alpha", color |-> "#222222", client_id |-> 1,
    workspace_id |-> 10],
   [id |-> 3, name |-> "Beta", color |-> "#333333", client_id |-> 2,
    workspace_id |-> 10]}

\* a wire time entry without its optional stop key
WireEntryBase(ids, descriptions, durations, projectIds, starts) ==
  [id : ids, description : descriptions, duration : durations,
   project_id : projectIds, start : starts]

\* the same records with the stop key present and holding one of stops
WithStop(base, stops) ==
  {e @@ [stop |-> s] : e \in base, s \in stops}

\* entries the remote answers with in the service runs: project 1 exists
\* on the remote, project 7 does not
ServiceEntryBase ==
  WireEntryBase({1234}, {"Running Entry 1"}, {0 - 1}, {1, 7},
                {"1970-01-01T09:00:00Z"})

WireEntries == ServiceEntryBase

\* entries of one day: a stopped one and an earlier started running one
DayEntries ==
  {[id |-> 1, description |-> "done", duration |-> 90, project_id |-> 1,
    start |-> "1970-01-01T09:00:00Z", stop |-> "1970-01-01T10:30:00Z"],
   [id |-> 2, description |-> "now", duration |-> 0 - 1, project_id |-> 1,
    start |-> "1970-01-01T08:15:00Z"]}

---------------------------------------------------------------------------
(* Remote mapping layer *)

\* fetchUser, the User built from the response
mapUser(data) ==
  [defaultWorkspaceId |-> data.default_workspace_id,
   email |-> data.email,
   id |-> data.id]

\* fetchClients, the callback of data.map
mapClient(client) == [id |-> client.id, name |-> client.name]

findClient_byProjectId(cs, project) == FindById(cs, project.id)

\* fetchProjects, clients.find((client) => client.id === project.client_id)
findClient(cs, project) == FindById(cs, project.client_id)

\* fetchProjects, the callback of data.map
mapProject(project, cs) ==
  [client |-> findClient(cs, project),
   color |-> project.color,
   id |-> project.id,
   name |-> project.name,
   workspace |-> [id |-> project.workspace_id]]

\* String.prototype.localeCompare: the collation puts letters before case
CollationKey == ("alpha" :> 1) @@ ("Beta" :> 2)

localeCompare(a, b) ==
  IF CollationKey[a] < CollationKey[b] THEN 0 - 1
  ELSE IF CollationKey[a] > CollationKey[b] THEN 1
  ELSE 0

\* fetchProjects, the comparator handed to sort
compareProjects(p1, p2) == localeCompare(p1.name, p2.name)

\* Array.prototype.sort is stable: x goes behind every element that does
\* not compare greater
InsertProject(s, x) ==
  LET k == Cardinality({i \in 1..Len(s) :
                          \A j \in 1..i : compareProjects(s[j], x) <= 0})
  IN  SubSeq(s, 1, k) \o <<x>> \o SubSeq(s, k + 1, Len(s))

RECURSIVE SortedPrefix(_, _)
SortedPrefix(s, n) ==
  IF n = 0 THEN <<>> ELSE InsertProject(SortedPrefix(s, n - 1), s[n])

sortProjects_unsorted(s) == s

sortProjects(s) == SortedPrefix(s, Len(s))

\* fetchProjects, data.map(...).sort(...)
mapProjects(data, cs) ==
  sortProjects([i \in 1..Len(data) |-> mapProject(data[i], cs)])

mapTimeEntry_alwaysStop(entry, ps) ==
  [description |-> entry.description,
   duration |-> entry.duration,
   id |-> entry.id,
   project |-> FindById(ps, entry.project_id),
   start |-> NewDate(entry.start),
   stop |-> NewDate(IF "stop" \in DOMAIN entry THEN entry.stop
                    ELSE UndefStr)]

\* mapTimeEntry
mapTimeEntry(entry, ps) ==
  LET project == FindById(ps, entry.project_id)
      item == [description |-> entry.description,
               duration |-> entry.duration,
               id |-> entry.id,
               project |-> project,
               start |-> NewDate(entry.start)]
  IN  IF "stop" \in DOMAIN entry
      THEN item @@ [stop |-> NewDate(entry.stop)]
      ELSE item

\* services/date sortStartStopables: an entry without stop sorts behind
\* every entry with a stop; otherwise ascending start
sortStartStopables(a, b) ==
  LET ra == "stop" \notin DOMAIN a
      rb == "stop" \notin DOMAIN b
  IN  IF ra /\ ~rb THEN 1
      ELSE IF rb /\ ~ra THEN 0 - 1
      ELSE IF a.start < b.start THEN 0 - 1
      ELSE IF a.start > b.start THEN 1
      ELSE 0

InsertEntry(s, x) ==
  LET k == Cardinality({i \in 1..Len(s) :
                          \A j \in 1..i : sortStartStopables(s[j], x) <= 0})
  IN  SubSeq(s, 1, k) \o <<x>> \o SubSeq(s, k + 1, Len(s))

RECURSIVE SortedEntryPrefix(_, _)
SortedEntryPrefix(s, n) ==
  IF n = 0 THEN <<>> ELSE InsertEntry(SortedEntryPrefix(s, n - 1), s[n])

mapTimeEntries_unsorted(data, ps) ==
  [i \in 1..Len(data) |-> mapTimeEntry(data[i], ps)]

\* fetchTimeEntriesOfDay, data.map(...).sort(sortStartStopables)
mapTimeEntries(data, ps) ==
  LET mapped == [i \in 1..Len(data) |-> mapTimeEntry(data[i], ps)]
  IN  SortedEntryPrefix(mapped, Len(mapped))

---------------------------------------------------------------------------
(* Requests and responses *)

\* the request was rejected: network error or a status outside 2xx
Failure == [failure |-> TRUE]

\* a request in flight; ordered is history kept for fetchProjects: no
\* fetchClients has written the client cache since the call was made
Call(op, ordered) == [op |-> op, ordered |-> ordered]

Pending(op) == {c \in DOMAIN inflight : c.op = op}

CanIssue == BagCardinality(inflight) < MaxInflight

Issued(op, ordered) ==
  /\ CanIssue
  /\ inflight' = inflight (+) SetToBag({Call(op, ordered)})
  /\ ev' = [kind |-> "invoke", op |-> op, data |-> Undefined,
            ret |-> Undefined, ordered |-> ordered]
  /\ UNCHANGED singleton

Returned(c, data, ret) ==
  /\ ev' = [kind |-> "return", op |-> c.op, data |-> data, ret |-> ret,
            ordered |-> c.ordered]
  /\ UNCHANGED singleton

Raised(c, data) ==
  /\ ev' = [kind |-> "raise", op |-> c.op, data |-> data, ret |-> Undefined,
            ordered |-> c.ordered]
  /\ UNCHANGED singleton

Settled(c) == inflight' = inflight (-) SetToBag({c})

\* the bag b after fetchClients has written the client cache: no call in
\* flight is ordered any more
Unordered(b) ==
  LET off(c) == [c EXCEPT !.ordered = FALSE]
      on(c) == [c EXCEPT !.ordered = TRUE]
      count(c) == (IF c \in DOMAIN b THEN b[c] ELSE 0) +
                  (IF on(c) \in DOMAIN b THEN b[on(c)] ELSE 0)
  IN  [c \in {off(d) : d \in DOMAIN b} |-> count(c)]

---------------------------------------------------------------------------
(* Initial state *)

\* TogglStore before the first fetch
InitialTogglState == [user |-> Null, clients |-> <<>>, projects |-> <<>>]

\* TimeBookingStore before the first fetch: the fields fetchActiveTimeEntry
\* writes
InitialBookingState ==
  [day |-> 2880, description |-> "", start |-> "", entry |-> Undefined,
   projectId |-> NoId]

Init ==
  /\ user = InitialTogglState.user
  /\ clients = InitialTogglState.clients
  /\ projects = InitialTogglState.projects
  /\ booking = InitialBookingState
  /\ inflight = EmptyBag
  /\ instance = 1
  /\ token = <<"token-1">>
  /\ ev = [kind |-> "init", op |-> "getInstance", data |-> Undefined,
           ret |-> Undefined, ordered |-> FALSE]

---------------------------------------------------------------------------
(* Time tracking client *)

UserBodies == {Failure} \cup WireUsers

fetchUserIssue ==
  /\ Issued("fetchUser", FALSE)
  /\ UNCHANGED stores

fetchUserSettle_absorbing ==
  \E c \in Pending("fetchUser"), data \in UserBodies :
    /\ Settled(c)
    /\ IF data \in WireUsers
       THEN /\ user' = mapUser(data)
            /\ Returned(c, data, mapUser(data))
       ELSE /\ user' = user
            /\ Returned(c, data, Null)
    /\ UNCHANGED <<clients, projects, booking>>

fetchUserSettle ==
  \E c \in Pending("fetchUser"), data \in UserBodies :
    /\ Settled(c)
    /\ IF data \in WireUsers
       THEN /\ user' = mapUser(data)
            /\ Returned(c, data, mapUser(data))
       ELSE \* the await rejects
            /\ user' = user
            /\ Raised(c, data)
    /\ UNCHANGED <<clients, projects, booking>>

ClientBodies ==
  {Failure, Null, Undefined} \cup
  {Arr(l) : l \in SeqUpTo(WireClients, MaxList)}

fetchClientsIssue ==
  /\ Issued("fetchClients", FALSE)
  /\ UNCHANGED stores

fetchClientsSettle_relinking ==
  \E c \in Pending("fetchClients"), data \in ClientBodies :
    /\ IF data = Failure
       THEN /\ Raised(c, data)
            /\ Settled(c)
            /\ UNCHANGED <<clients, projects>>
       ELSE IF ~LooseNull(data)
       THEN LET cs == [i \in 1..Len(data.array) |->
                         mapClient(data.array[i])]
            IN  /\ clients' = cs
                /\ projects' =
                     [i \in 1..Len(projects) |->
                        [projects[i] EXCEPT !.client =
                           IF \E k \in 1..Len(cs) : cs[k] = @
                           THEN @ ELSE Undefined]]
                /\ inflight' = Unordered(inflight (-) SetToBag({c}))
                /\ Returned(c, data, Arr(cs))
       ELSE /\ Returned(c, data, Arr(<<>>))
            /\ Settled(c)
            /\ UNCHANGED <<clients, projects>>
    /\ UNCHANGED <<user, booking>>

fetchClientsSettle ==
  \E c \in Pending("fetchClients"), data \in ClientBodies :
    /\ IF data = Failure
       THEN /\ Raised(c, data)
            /\ Settled(c)
            /\ UNCHANGED clients
       ELSE IF ~LooseNull(data)
       THEN LET cs == [i \in 1..Len(data.array) |->
                         mapClient(data.array[i])]
            IN  /\ clients' = cs
                /\ inflight' = Unordered(inflight (-) SetToBag({c}))
                /\ Returned(c, data, Arr(cs))
       ELSE /\ Returned(c, data, Arr(<<>>))
            /\ Settled(c)
            /\ UNCHANGED clients
    /\ UNCHANGED <<user, projects, booking>>

ProjectBodies ==
  {Failure, Null} \cup
  {Arr(l) : l \in SeqUpTo(WireProjects, MaxList)}

fetchProjectsIssue ==
  /\ Issued("fetchProjects", TRUE)
  /\ UNCHANGED stores

fetchProjectsResult_cached(ps) == ps

\* fetchProjects, the value of the return statement
fetchProjectsResult(ps) == <<>>

fetchProjectsSettle_clearing ==
  \E c \in Pending("fetchProjects"), data \in ProjectBodies :
    /\ Settled(c)
    /\ IF data = Failure
       THEN /\ Raised(c, data)
            /\ projects' = <<>>
       ELSE IF ~LooseNull(data)
       THEN /\ projects' = mapProjects(data.array, clients)
            /\ Returned(c, data, Arr(fetchProjectsResult(projects')))
       ELSE /\ projects' = <<>>
            /\ Returned(c, data, Arr(fetchProjectsResult(projects)))
    /\ UNCHANGED <<user, clients, booking>>

\* fetchProjects from its await on
fetchProjectsSettle ==
  \E c \in Pending("fetchProjects"), data \in ProjectBodies :
    /\ Settled(c)
    /\ IF data = Failure
       THEN /\ Raised(c, data)
            /\ projects' = projects
       ELSE IF ~LooseNull(data)
       THEN /\ projects' = mapProjects(data.array, clients)
            /\ Returned(c, data, Arr(fetchProjectsResult(projects')))
       ELSE /\ projects' = projects
            /\ Returned(c, data, Arr(fetchProjectsResult(projects)))
    /\ UNCHANGED <<user, clients, booking>>

ActiveBodies == {Failure, Null} \cup WireEntries

fetchActiveTimeEntryIssue ==
  /\ Issued("fetchActiveTimeEntry", FALSE)
  /\ UNCHANGED stores

\* fetchActiveTimeEntry, the branch taken when data === null
noActiveEntry(data) == data = Null

\* fetchActiveTimeEntry, the updater handed to TimeBookingStore.update
bookActiveEntry(b, entry) ==
  [b EXCEPT !.day = entry.start,
            !.description = entry.description,
            !.start = formatTime(entry.start),
            !.entry = entry,
            !.projectId = entry.project.id]

keepBooking_reset(b) == InitialBookingState

\* fetchActiveTimeEntry, the booking state when data === null
keepBooking(b) == b

fetchActiveTimeEntrySettle ==
  \E c \in Pending("fetchActiveTimeEntry"), data \in ActiveBodies :
    /\ Settled(c)
    /\ IF data = Failure
       THEN /\ Raised(c, data)
            /\ booking' = booking
       ELSE IF noActiveEntry(data)
       THEN /\ booking' = keepBooking(booking)
            /\ Returned(c, data, Null)
       ELSE LET entry == mapTimeEntry(data, projects)
            IN  IF entry.project = Undefined
                THEN \* entry.project.id throws inside the updater: the
                     \* store drops the draft and the error propagates
                     /\ Raised(c, data)
                     /\ booking' = booking
                ELSE /\ booking' = bookActiveEntry(booking, entry)
                     /\ Returned(c, data, entry)
    /\ UNCHANGED <<user, clients, projects>>

DayBodies ==
  {Failure} \cup {Arr(l) : l \in SeqUpTo(DayEntries, MaxList)}

fetchTimeEntriesOfDayIssue ==
  /\ Issued("fetchTimeEntriesOfDay", FALSE)
  /\ UNCHANGED stores

fetchTimeEntriesOfDaySettle ==
  \E c \in Pending("fetchTimeEntriesOfDay"), data \in DayBodies :
    /\ Settled(c)
    /\ IF data = Failure
       THEN \* the await rejects
            Raised(c, data)
       ELSE Returned(c, data, Arr(mapTimeEntries(data.array, projects)))
    /\ UNCHANGED stores

\* the entries a caller holds and hands to updateTimeEntry
UpdateArgs == {mapTimeEntry(e, projects) : e \in WireEntries}

UpdateBodies == {Failure, Null} \cup WireEntries

caught_rethrown(c, data) == Raised(c, data)

\* updateTimeEntry, what the catch clause does with an error
caught(c, data) == Returned(c, data, Null)

updateTimeEntryIssue ==
  \E entry \in UpdateArgs :
    /\ IF entry.project = Undefined
       THEN \* building the path throws inside try: no request is made
            /\ caught(Call("updateTimeEntry", FALSE), Undefined)
            /\ inflight' = inflight
       ELSE Issued("updateTimeEntry", FALSE)
    /\ UNCHANGED stores

updateTimeEntrySettle ==
  \E c \in Pending("updateTimeEntry"), data \in UpdateBodies :
    /\ Settled(c)
    /\ IF data = Failure
       THEN caught(c, data)
       ELSE IF data = Null
       THEN Returned(c, data, Null)
       ELSE Returned(c, data, mapTimeEntry(data, projects))
    /\ UNCHANGED stores

Next ==
  \/ fetchUserIssue
  \/ fetchUserSettle
  \/ fetchClientsIssue
  \/ fetchClientsSettle
  \/ fetchProjectsIssue
  \/ fetchProjectsSettle
  \/ fetchActiveTimeEntryIssue
  \/ fetchActiveTimeEntrySettle
  \/ fetchTimeEntriesOfDayIssue
  \/ fetchTimeEntriesOfDaySettle
  \/ updateTimeEntryIssue
  \/ updateTimeEntrySettle

Spec == Init /\ [][Next]_vars

---------------------------------------------------------------------------
(* mapTimeEntry on its own: every wire entry against every cache *)

MapEntryBase ==
  WireEntryBase({1234}, {"Running Entry 1", ""}, {0 - 1, 90}, {1, 2, 7},
                {"1970-01-01T09:00:00Z", "1970-01-02T08:15:00Z"})

MapEntries ==
  MapEntryBase \cup
  WithStop(MapEntryBase, {NullStr, UndefStr, "1970-01-01T10:30:00Z"})

\* the caches fetchProjects can leave behind
MapCaches ==
  {mapProjects(l, cs) : l \in SeqUpTo(WireProjects, MaxList),
                        cs \in SeqUpTo(WireClients, MaxList)}

InitMap ==
  /\ user = InitialTogglState.user
  /\ clients = InitialTogglState.clients
  /\ projects \in MapCaches
  /\ booking = InitialBookingState
  /\ inflight = EmptyBag
  /\ instance = 1
  /\ token = <<"token-1">>
  /\ \E entry \in MapEntries :
       ev = [kind |-> "invoke", op |-> "mapTimeEntry", data |-> entry,
             ret |-> Undefined, ordered |-> FALSE]

mapTimeEntryStep ==
  /\ ev.kind = "invoke"
  /\ ev.op = "mapTimeEntry"
  /\ ev' = [ev EXCEPT !.kind = "return",
                      !.ret = mapTimeEntry(ev.data, projects)]
  /\ UNCHANGED <<stores, inflight, singleton>>

NextMap == mapTimeEntryStep

SpecMap == InitMap /\ [][NextMap]_vars

---------------------------------------------------------------------------
(* Properties *)

Range(s) == {s[i] : i \in 1..Len(s)}

\* the last step was the completion of op: it returned or raised
Completed(e, op) == e.op = op /\ e.kind \in {"return", "raise"}

MapReturned == ev.op = "mapTimeEntry" /\ ev.kind = "return"

HasStopKey(e) == "stop" \in DOMAIN e

\* the three shapes of a wire entry that is still running
RunningOnWire(e) == ~HasStopKey(e) \/ e.stop = NullStr \/ e.stop = UndefStr

\* C1: a wire time entry without a stop key maps to an entry without a
\* stop field, whatever its other fields and the cached projects are, and
\* description, duration and id are copied unchanged.
C1_NoStopKeyMapsToRunning ==
  (MapReturned /\ ~HasStopKey(ev.data)) =>
    /\ ~HasStopKey(ev.ret)
    /\ ev.ret.description = ev.data.description
    /\ ev.ret.duration = ev.data.duration
    /\ ev.ret.id = ev.data.id

C1_Witness ==
  /\ MapReturned
  /\ ~HasStopKey(ev.data)
  /\ ev.ret.project # Undefined
  /\ ev.data.duration = 90
  /\ ev.data.description = ""

\* C2: a wire entry that is still running (stop key missing, stop null,
\* stop undefined) never gets a stop field on the mapped entry.
C2_RunningNeverPopulatesStop ==
  (MapReturned /\ RunningOnWire(ev.data)) => ~HasStopKey(ev.ret)

\* C3: fetchActiveTimeEntry with an active entry whose project is not in
\* the cached projects completes without raising, returns the mapped
\* entry with an unresolved project, and the booking state holds it.
C3_UnresolvedProjectTolerated ==
  (/\ Completed(ev, "fetchActiveTimeEntry")
   /\ ev.data \in WireEntries
   /\ FindById(projects, ev.data.project_id) = Undefined) =>
    /\ ev.kind = "return"
    /\ ev.ret = mapTimeEntry(ev.data, projects)
    /\ ev.ret.project = Undefined
    /\ booking.entry = ev.ret

\* C4 as claimed: whenever the remote request of an operation fails, the
\* operation returns null or an empty list and never raises.
C4_EveryFailureAbsorbed ==
  (ev.kind \in {"return", "raise"} /\ ev.data = Failure) =>
    /\ ev.kind = "return"
    /\ ev.ret \in {Null, Arr(<<>>)}

\* C4 as amended: a failed request is absorbed by updateTimeEntry only,
\* which returns null; a failed request of one of the five fetch
\* operations raises to the caller; in both cases no store is changed.
C4_FailureAbsorbedByUpdateOnly ==
  [][(ev'.kind \in {"return", "raise"} /\ ev'.data = Failure) =>
       /\ stores' = stores
       /\ IF ev'.op = "updateTimeEntry"
          THEN ev'.kind = "return" /\ ev'.ret = Null
          ELSE ev'.kind = "raise"]_vars

C4_Witness ==
  /\ ev.kind = "raise"
  /\ ev.data = Failure
  /\ ev.op = "fetchTimeEntriesOfDay"
  /\ user # Null
  /\ projects # <<>>

\* C5: updateTimeEntry returns null on any failure of the PUT and does not
\* raise, returns the mapped response entry on success with a body, and
\* changes no store.
C5_UpdateSwallowsFailure ==
  [][Completed(ev', "updateTimeEntry") =>
       /\ stores' = stores
       /\ ev'.kind = "return"
       /\ (ev'.data = Failure => ev'.ret = Null)
       /\ (ev'.data \in WireEntries =>
             ev'.ret = mapTimeEntry(ev'.data, projects))]_vars

C5_Witness ==
  /\ Completed(ev, "updateTimeEntry")
  /\ ev.data = Failure
  /\ ev.ret = Null
  /\ projects # <<>>
  /\ booking.entry # Undefined

\* C6: in every reachable state the cached projects are in ascending
\* order of their names under the locale-aware comparison.
C6_ProjectsSortedByName ==
  \A i, j \in 1..Len(projects) :
    i < j => localeCompare(projects[i].name, projects[j].name) <= 0

C6_Witness ==
  /\ ev.op = "fetchProjects"
  /\ ev.kind = "return"
  /\ IsArr(ev.data)
  /\ Len(ev.data.array) = 2
  /\ localeCompare(ev.data.array[1].name, ev.data.array[2].name) > 0
  /\ Len(projects) = 2

\* C7: whenever fetchProjects returns, it returns an empty list, also in
\* the state in which the same call has overwritten the cached projects
\* with the mapped projects of its response.
C7_FetchProjectsReturnsEmpty ==
  (ev.op = "fetchProjects" /\ ev.kind = "return") => ev.ret = Arr(<<>>)

C7_Witness ==
  /\ ev.op = "fetchProjects"
  /\ ev.kind = "return"
  /\ IsArr(ev.data)
  /\ Len(projects) > 0
  /\ projects = mapProjects(ev.data.array, clients)
  /\ ev.ret = Arr(<<>>)

\* the wire records of the response that the cached project p came from
WireOf(p, data) == {w \in Range(data.array) : w.id = p.id}

\* C8: when no client fetch has completed between the call of
\* fetchProjects and its completion (so a fetchClients that completed
\* before the call is the one that filled the cache), then after
\* fetchProjects every cached project whose wire client_id is the id of a
\* cached client references that client, and every other cached project
\* references none.
C8_OrderedFetchResolvesClients ==
  (/\ ev.op = "fetchProjects"
   /\ ev.kind = "return"
   /\ ev.ordered
   /\ IsArr(ev.data)) =>
    /\ Len(projects) = Len(ev.data.array)
    /\ \A i \in 1..Len(projects) :
         /\ WireOf(projects[i], ev.data) # {}
         /\ \A w \in WireOf(projects[i], ev.data) :
              IF \E c \in Range(clients) : c.id = w.client_id
              THEN /\ projects[i].client \in Range(clients)
                   /\ projects[i].client.id = w.client_id
              ELSE projects[i].client = Undefined

C8_Witness ==
  /\ ev.op = "fetchProjects"
  /\ ev.kind = "return"
  /\ ev.ordered
  /\ clients # <<>>
  /\ \E i, j \in 1..Len(projects) :
       /\ projects[i].client \in Range(clients)
       /\ projects[j].client = Undefined

\* C9: references are resolved once: a fetchClients that completes leaves
\* the cached projects and their client references as they are, and a
\* fetchProjects that completes leaves the entry held by the booking
\* state, with its project reference, as it is.
C9_ReferencesResolvedOnce ==
  [][/\ Completed(ev', "fetchClients") => projects' = projects
     /\ Completed(ev', "fetchProjects") => booking' = booking]_vars

\* project 1 was mapped before its client 2 was cached, and a later
\* fetchClients has cached client 2
C9_Witness ==
  /\ ev.op = "fetchClients"
  /\ ev.kind = "return"
  /\ \E i \in 1..Len(projects) :
       /\ projects[i].id = 1
       /\ projects[i].client = Undefined
  /\ \E c \in Range(clients) : c.id = 2
  /\ booking.entry # Undefined

\* C10: fetchActiveTimeEntry with a null response returns null and leaves
\* every field of the booking state unchanged.
C10_NoActiveEntryKeepsBooking ==
  [][(Completed(ev', "fetchActiveTimeEntry") /\ ev'.data = Null) =>
       /\ ev'.kind = "return"
       /\ ev'.ret = Null
       /\ booking' = booking]_vars

C10_Witness ==
  /\ Completed(ev, "fetchActiveTimeEntry")
  /\ ev.data = Null
  /\ ev.ret = Null
  /\ booking.entry # Undefined

\* C11: fetchActiveTimeEntry with a running entry on the remote overwrites
\* exactly day (the start of the entry), description, start (the time of day
\* of the start), entry and projectId of the booking state from the mapped
\* entry, leaves every other field of the booking state and the user,
\* client and project caches unchanged, and returns the mapped entry.
C11_RunningEntryPopulatesBooking ==
  [][(Completed(ev', "fetchActiveTimeEntry") /\ ev'.data \in WireEntries) =>
       LET entry == mapTimeEntry(ev'.data, projects)
       IN  /\ ev'.kind = "return"
           /\ ev'.ret = entry
           /\ booking'.day = entry.start
           /\ booking'.description = entry.description
           /\ booking'.start = formatTime(entry.start)
           /\ booking'.entry = entry
           /\ entry.project # Undefined
           /\ booking'.projectId = entry.project.id
           /\ \A f \in DOMAIN booking \ {"day", "description", "start",
                                         "entry", "projectId"} :
                booking'[f] = booking[f]
           /\ DOMAIN booking' = DOMAIN booking
           /\ <<user, clients, projects>>' = <<user, clients, projects>>]_vars

---------------------------------------------------------------------------
(* Overlapping fetchActiveTimeEntry calls *)

\* calls of fetchActiveTimeEntry made in one behaviour
MaxCalls == 3

\* the running entry of the remote at different moments: entry 1234, and
\* entry 1235 started after 1234 was stopped; both in the cached project 1
OverlapEntries ==
  {[e EXCEPT !.id = i] : e \in {w \in WireEntries : w.project_id = 1},
                         i \in {1234, 1235}}

OverlapBodies == {Failure, Null} \cup OverlapEntries

\* project 1 is cached
InitOverlap ==
  /\ user = InitialTogglState.user
  /\ clients = InitialTogglState.clients
  /\ projects = mapProjects(<<CHOOSE p \in WireProjects : p.id = 1>>, clients)
  /\ booking = InitialBookingState
  /\ inflight = EmptyBag
  /\ instance = 1
  /\ token = <<"token-1">>
  /\ ev = [kind |-> "init", op |-> "getInstance", data |-> Undefined,
           ret |-> Undefined, ordered |-> FALSE, seq |-> 0,
           responses |-> <<>>]

\* fetchActiveTimeEntry up to its await; seq numbers the calls in the order
\* they are made and responses[seq] is the body the call received
fetchActiveTimeEntryCall ==
  /\ CanIssue
  /\ Len(ev.responses) < MaxCalls
  /\ LET seq == Len(ev.responses) + 1
     IN  /\ inflight' = inflight (+)
              SetToBag({[op |-> "fetchActiveTimeEntry", ordered |-> FALSE,
                         seq |-> seq]})
         /\ ev' = [kind |-> "invoke", op |-> "fetchActiveTimeEntry",
                   data |-> Undefined, ret |-> Undefined, ordered |-> FALSE,
                   seq |-> seq,
                   responses |-> Append(ev.responses, Undefined)]
  /\ UNCHANGED <<stores, singleton>>

\* fetchActiveTimeEntry from its await on, for the call numbered c.seq
fetchActiveTimeEntryResponse ==
  \E c \in Pending("fetchActiveTimeEntry"), data \in OverlapBodies :
    LET entry == mapTimeEntry(data, projects)
        raises == data = Failure \/
                  (~noActiveEntry(data) /\ entry.project = Undefined)
        done(kind, ret) ==
          ev' = [kind |-> kind, op |-> c.op, data |-> data, ret |-> ret,
                 ordered |-> c.ordered, seq |-> c.seq,
                 responses |-> [ev.responses EXCEPT ![c.seq] = data]]
    IN  /\ Settled(c)
        /\ IF raises
           THEN /\ done("raise", Undefined)
                /\ booking' = booking
           ELSE IF noActiveEntry(data)
           THEN /\ booking' = keepBooking(booking)
                /\ done("return", Null)
           ELSE /\ booking' = bookActiveEntry(booking, entry)
                /\ done("return", entry)
        /\ UNCHANGED <<user, clients, projects, singleton>>

NextOverlap ==
  \/ fetchActiveTimeEntryCall
  \/ fetchActiveTimeEntryResponse

SpecOverlap == InitOverlap /\ [][NextOverlap]_vars

\* the calls whose response was a running entry
FoundRunning == {i \in 1..Len(ev.responses) : ev.responses[i] \in OverlapEntries}

LastIssued(S) == CHOOSE i \in S : \A j \in S : j <= i

\* C12: once every fetchActiveTimeEntry call made so far has completed,
\* in whatever order the responses arrived, the booking state is that of
\* the running entry received by the most recently issued call that found
\* a running entry.
C12_LatestIssuedFetchWins ==
  (inflight = EmptyBag /\ FoundRunning # {}) =>
    LET entry == mapTimeEntry(ev.responses[LastIssued(FoundRunning)], projects)
    IN  /\ entry.project # Undefined
        /\ booking = bookActiveEntry(InitialBookingState, entry)

---------------------------------------------------------------------------
(* Booking reconciliation: the CreateEntry form over the BookingStore *)

\* time-of-day strings typed into the form, with their minute of the day
TimeTable ==
  [s \in {"00:00", "08:59", "09:00", "09:15", "10:00"} |->
     CASE s = "00:00" -> 0
       [] s = "08:59" -> 539
       [] s = "09:00" -> 540
       [] s = "09:15" -> 555
       [] s = "10:00" -> 600]

TimeInputs == {"08:59", "09:00", "10:00"}

\* services/date combineDateWithTime: the calendar date of day with the
\* time of day of timeString
combineDateWithTime(day, timeString) ==
  IF timeString \in DOMAIN TimeTable
  THEN (day \div 1440) * 1440 + TimeTable[timeString]
  ELSE NaN

\* "now" of the tests: 10:15 on the third day, 01:00 on the second
Days == {3495, 1500}

\* BookingStore as setupWithRunningTimeEntry leaves it: the running entry
\* 1234 of project 2, started one hour before now
RunningBooking(now) ==
  [day |-> now, projectId |-> 2, timeEntryDescription |-> "Running Entry 1",
   timeEntryId |-> 1234, timeStart |-> formatTime(now - 60),
   timeStop |-> UndefStr]

\* TogglStore as setupWithRunningTimeEntry leaves it
SetupClients == <<[id |-> 1, name |-> "Client A"]>>

SetupProjects ==
  [i \in 1..3 |->
     [id |-> i, name |-> <<"Project A", "Project B", "Project C">>[i],
      client |-> SetupClients[1], color |-> "#ffffff"]]

InitForm ==
  /\ user = InitialTogglState.user
  /\ clients = SetupClients
  /\ projects = SetupProjects
  /\ booking \in {RunningBooking(now) : now \in Days}
  /\ inflight = EmptyBag
  /\ instance = 1
  /\ token = <<"token-1">>
  /\ ev = [kind |-> "init", op |-> "setupWithRunningTimeEntry",
           data |-> Undefined, ret |-> Undefined, ordered |-> FALSE]

\* has a timeEntryId, a start time and no stop time
Stoppable(b) ==
  b.timeEntryId # NoId /\ b.timeStart # UndefStr /\ b.timeStop = UndefStr

\* has a timeEntryId, a start time and a stop time
Completable(b) ==
  b.timeEntryId # NoId /\ b.timeStart # UndefStr /\ b.timeStop # UndefStr

\* the start field is flagged when its text is no time of day
startInvalid(b) == b.timeStart \notin DOMAIN TimeTable

stopInvalid_never(b) == FALSE

\* the stop field is flagged when the stop is earlier than the start on
\* the day of the booking
stopInvalid(b) ==
  /\ b.timeStop # UndefStr
  /\ \/ b.timeStop \notin DOMAIN TimeTable
     \/ combineDateWithTime(b.day, b.timeStop) <
          combineDateWithTime(b.day, b.timeStart)

updatePayload_keepingClock(b) ==
  [b EXCEPT !.timeStart = b.day + TimeTable[b.timeStart],
            !.timeStop = b.day + TimeTable[b.timeStop]]

\* the argument of updateTimeEntry on commit
updatePayload(b) ==
  [b EXCEPT !.timeStart = combineDateWithTime(b.day, b.timeStart),
            !.timeStop = combineDateWithTime(b.day, b.timeStop)]

commitCall_sendingStart(b) ==
  [op |-> "updateTimeEntry", ordered |-> FALSE,
   arg |-> [b EXCEPT !.timeStart = combineDateWithTime(b.day, b.timeStart)]]

\* the request a commit issues: stopTimeEntry(timeEntryId) for a booking
\* without stop time, updateTimeEntry for one with both bounds
commitCall(b) ==
  IF Stoppable(b)
  THEN [op |-> "stopTimeEntry", ordered |-> FALSE,
        arg |-> [id |-> b.timeEntryId]]
  ELSE [op |-> "updateTimeEntry", ordered |-> FALSE,
        arg |-> updatePayload(b)]

Edited(op, text) ==
  /\ ev' = [kind |-> "return", op |-> op, data |-> [text |-> text],
            ret |-> Undefined, ordered |-> FALSE]
  /\ UNCHANGED <<user, clients, projects, inflight, singleton>>

\* the user types a start time
changeStart ==
  \E t \in TimeInputs :
    /\ booking' = [booking EXCEPT !.timeStart = t]
    /\ Edited("changeStart", t)

\* the user types a stop time
changeStop ==
  \E t \in TimeInputs :
    /\ booking' = [booking EXCEPT !.timeStop = t]
    /\ Edited("changeStop", t)

\* the user presses the action button
commit ==
  /\ Stoppable(booking) \/ Completable(booking)
  /\ ~startInvalid(booking)
  /\ ~stopInvalid(booking)
  /\ CanIssue
  /\ inflight' = inflight (+) SetToBag({commitCall(booking)})
  /\ ev' = [kind |-> "invoke", op |-> "commit", data |-> commitCall(booking),
            ret |-> Undefined, ordered |-> FALSE]
  /\ UNCHANGED <<stores, singleton>>

\* the request of a commit succeeded: "Entry updated." is shown
notify ==
  \E c \in Pending("stopTimeEntry") \cup Pending("updateTimeEntry") :
    /\ Settled(c)
    /\ ev' = [kind |-> "return", op |-> c.op, data |-> c,
              ret |-> [notification |-> "Entry updated."],
              ordered |-> FALSE]
    /\ UNCHANGED <<stores, singleton>>

NextForm ==
  \/ changeStart
  \/ changeStop
  \/ commit
  \/ notify

SpecForm == InitForm /\ [][NextForm]_vars

\* the minute of the day that formatTime renders as the text s
ClockTable ==
  [s \in DOMAIN TimeTable |-> CHOOSE m \in 0..1439 : formatTime(m) = s]

ClockOf(s) == ClockTable[s]

CommitStep == ev'.op = "commit" /\ ev'.kind = "invoke"

\* exactly the call c was issued by the step
IssuedOnly(c) == inflight' = inflight (+) SetToBag({c})

\* C13: a commit of a booking state with a timeEntryId, a start time and no
\* stop time issues stopTimeEntry(timeEntryId) exactly once, with that id
\* alone, and no updateTimeEntry; the locally edited start is not sent.
C13_StoppableCommitStops ==
  [][(CommitStep /\ Stoppable(booking)) =>
       /\ IssuedOnly([op |-> "stopTimeEntry", ordered |-> FALSE,
                      arg |-> [id |-> booking.timeEntryId]])
       /\ Pending("updateTimeEntry")' = Pending("updateTimeEntry")
       /\ booking' = booking]_vars

\* the start of the running entry 1234 was edited to 09:00 and the commit
\* issued the stop
C13_Witness ==
  /\ ev.op = "commit"
  /\ ev.data.op = "stopTimeEntry"
  /\ ev.data.arg = [id |-> 1234]
  /\ booking.timeStart = "09:00"
  /\ booking.timeStart # formatTime(booking.day - 60)
  /\ BagCardinality(inflight) = 1

\* C14: a commit of a booking state with a timeEntryId, a start time and a
\* stop time issues updateTimeEntry exactly once and no stopTimeEntry; the
\* start and the stop sent are the start and stop times of day on the
\* calendar date of the booking's day, and day, project id, description and
\* entry id are sent unchanged.
C14_CompletableCommitUpdates ==
  [][(CommitStep /\ Completable(booking)) =>
       \E c \in DOMAIN inflight' :
         /\ IssuedOnly(c)
         /\ c.op = "updateTimeEntry"
         /\ Pending("stopTimeEntry")' = Pending("stopTimeEntry")
         /\ c.arg.timeStart =
              (booking.day \div 1440) * 1440 + ClockOf(booking.timeStart)
         /\ c.arg.timeStop =
              (booking.day \div 1440) * 1440 + ClockOf(booking.timeStop)
         /\ c.arg.day = booking.day
         /\ c.arg.projectId = booking.projectId
         /\ c.arg.timeEntryDescription = booking.timeEntryDescription
         /\ c.arg.timeEntryId = booking.timeEntryId]_vars

\* start 09:00 and stop 10:00 were typed and the commit issued the update
C14_Witness ==
  /\ ev.op = "commit"
  /\ ev.data.op = "updateTimeEntry"
  /\ booking.timeStart = "09:00"
  /\ booking.timeStop = "10:00"
  /\ ev.data.arg.timeStart = ev.data.arg.timeStop - 60
  /\ ev.data.arg.projectId = 2
  /\ ev.data.arg.timeEntryDescription = "Running Entry 1"
  /\ BagCardinality(inflight) = 1

\* the stop time of b is strictly earlier than its start time
StopBeforeStart(b) ==
  b.timeStop # UndefStr /\ ClockOf(b.timeStop) < ClockOf(b.timeStart)

---------------------------------------------------------------------------
(* The singleton and the credentials of the requests *)

Tokens == {"token-1", "token-2"}

\* every operation of the service that sends a request
Operations ==
  {"fetchUser", "fetchClients", "fetchProjects", "fetchActiveTimeEntry",
   "fetchTimeEntriesOfDay", "updateTimeEntry"}

\* the operations that sleep first in development mode
DelayedOperations == {"fetchUser", "fetchTimeEntriesOfDay"}

\* getAuth of the object self
getAuth(self) ==
  [auth |-> [username |-> token[self], password |-> "api_token"]]

\* no instance has been requested yet
InitAuth ==
  /\ user = InitialTogglState.user
  /\ clients = InitialTogglState.clients
  /\ projects = InitialTogglState.projects
  /\ booking = InitialBookingState
  /\ inflight = EmptyBag
  /\ instance = 0
  /\ token = <<>>
  /\ ev = [kind |-> "init", op |-> "TogglService", data |-> Undefined,
           ret |-> Undefined, ordered |-> FALSE]

getInstance_fresh(t) ==
  /\ token' = Append(token, t)
  /\ instance' = Len(token) + 1
  /\ Len(token) < 2
  /\ ev' = [kind |-> "return", op |-> "getInstance", data |-> [token |-> t],
            ret |-> [object |-> instance'], ordered |-> FALSE]
  /\ UNCHANGED <<stores, inflight>>

\* TogglService.getInstance(t): constructs the instance with the token t
\* when there is none, else sets the token of the instance; returns it
getInstance(t) ==
  /\ IF instance = 0
     THEN /\ token' = Append(token, t)
          /\ instance' = Len(token) + 1
     ELSE /\ token' = [token EXCEPT ![instance] = t]
          /\ instance' = instance
  /\ ev' = [kind |-> "return", op |-> "getInstance", data |-> [token |-> t],
            ret |-> [object |-> instance'], ordered |-> FALSE]
  /\ UNCHANGED <<stores, inflight>>

getInstanceCall == \E t \in Tokens : getInstance(t)

\* one call at a time is made through the instance in this specification
Idle == instance # 0 /\ inflight = EmptyBag

\* the request of op as axios sends it, with the spread of getAuth()
Request(op, config) ==
  [op |-> op, ordered |-> FALSE, auth |-> config.auth]

Sent(op, config, calledWith) ==
  /\ ev' = [kind |-> "invoke", op |-> op,
            data |-> [auth |-> config.auth, calledWith |-> calledWith],
            ret |-> Undefined, ordered |-> FALSE]
  /\ UNCHANGED <<stores, singleton>>

\* an operation that reaches its request without a delay: any operation in
\* production mode or with a delay of 0, the other four in every mode
sendRequest ==
  \E op \in Operations :
    /\ Idle
    /\ inflight' = SetToBag({Request(op, getAuth(instance))})
    /\ Sent(op, getAuth(instance), token[instance])

\* fetchUser or fetchTimeEntriesOfDay in development mode with a delay
\* above 0: the call awaits this.sleep; calledWith is history, the token
\* at the moment of the call
sleep ==
  \E op \in DelayedOperations :
    /\ Idle
    /\ inflight' = SetToBag({[op |-> "sleep", then |-> op,
                              ordered |-> FALSE,
                              calledWith |-> token[instance]]})
    /\ ev' = [kind |-> "invoke", op |-> "sleep", data |-> [then |-> op],
              ret |-> Undefined, ordered |-> FALSE]
    /\ UNCHANGED <<stores, singleton>>

delayedAuth_early(calledWith) ==
  [auth |-> [username |-> calledWith, password |-> "api_token"]]

\* the spread of this.getAuth() evaluated after the sleep
delayedAuth(calledWith) == getAuth(instance)

\* the sleep is over: the request is sent
wake ==
  \E timer \in Pending("sleep") :
    /\ inflight' = (inflight (-) SetToBag({timer})) (+)
         SetToBag({Request(timer.then, delayedAuth(timer.calledWith))})
    /\ Sent(timer.then, delayedAuth(timer.calledWith), timer.calledWith)

NextAuth ==
  \/ getInstanceCall
  \/ sendRequest
  \/ sleep
  \/ wake
  \/ fetchUserSettle
  \/ fetchClientsSettle
  \/ fetchProjectsSettle
  \/ fetchActiveTimeEntrySettle
  \/ fetchTimeEntriesOfDaySettle
  \/ updateTimeEntrySettle

SpecAuth == InitAuth /\ [][NextAuth]_vars

\* C16: after any sequence of getInstance calls exactly one TogglService
\* object exists, every call returned that object, and its token is the
\* token of the latest call, for every holder of a reference; no
\* other step replaces the instance or changes its token.
C16_SingletonWithCredentialRotation ==
  [][/\ ev'.op = "getInstance" =>
          /\ Len(token') = 1
          /\ instance' = 1
          /\ ev'.ret.object = instance'
          /\ instance # 0 => instance' = instance
          /\ \A object \in 1..Len(token') : token'[object] = ev'.data.token
     /\ ev'.op # "getInstance" => singleton' = singleton]_vars

\* getInstance("token-2") returned the instance while a request sent with
\* its earlier token "token-1" was in flight
C16_Witness ==
  /\ ev.op = "getInstance"
  /\ ev.data.token = "token-2"
  /\ ev.ret.object = instance
  /\ token = <<"token-2">>
  /\ \E c \in DOMAIN inflight :
       c.op \in Operations /\ c.auth.username = "token-1"

\* C17: every request the service sends carries the password "api_token"
\* and, as username, the token of the instance at the moment the request is
\* sent; for fetchUser and fetchTimeEntriesOfDay in development mode that
\* is the token after the delay, not the one at the call.
C17_RequestCarriesCurrentToken ==
  [][(ev'.kind = "invoke" /\ ev'.op \in Operations) =>
       /\ \E c \in DOMAIN inflight' : c.op = ev'.op
       /\ \A c \in {d \in DOMAIN inflight' : d.op = ev'.op} :
            /\ c.auth.password = "api_token"
            /\ c.auth.username = token[instance]
            /\ DOMAIN c.auth = {"username", "password"}]_vars

\* fetchUser was called under "token-1", the token was rotated during the
\* delay and the request went out with "token-2"
C17_Witness ==
  /\ ev.kind = "invoke"
  /\ ev.op = "fetchUser"
  /\ ev.data.calledWith = "token-1"
  /\ ev.data.auth.username = "token-2"
  /\ token[instance] = "token-2"

---------------------------------------------------------------------------
(* fetchClients over several clients *)

\* clients of the remote as it sends them: neither by id nor by name in
\* order, with a field the service does not keep
WorkspaceClients ==
  {[id |-> 3, name |-> "Client C", wid |-> 10],
   [id |-> 1, name |-> "Client A", wid |-> 10],
   [id |-> 2, name |-> "Client B", wid |-> 10]}

WorkspaceClientBodies ==
  {Failure, Null, Undefined} \cup
  {Arr(l) : l \in SeqUpTo(WorkspaceClients, MaxList + 1)}

mapClients_reversed(data) ==
  [i \in 1..Len(data) |-> mapClient(data[Len(data) + 1 - i])]

\* fetchClients, data.map(...)
mapClients(data) == [i \in 1..Len(data) |-> mapClient(data[i])]

InitClients ==
  /\ user = InitialTogglState.user
  /\ clients = InitialTogglState.clients
  /\ projects = InitialTogglState.projects
  /\ booking = InitialBookingState
  /\ inflight = EmptyBag
  /\ instance = 1
  /\ token = <<"token-1">>
  /\ ev = [kind |-> "init", op |-> "getInstance", data |-> Undefined,
           ret |-> Undefined, ordered |-> FALSE]

\* fetchClients from its await on
fetchClientsResponse ==
  \E c \in Pending("fetchClients"), data \in WorkspaceClientBodies :
    /\ Settled(c)
    /\ IF data = Failure
       THEN /\ Raised(c, data)
            /\ UNCHANGED clients
       ELSE IF ~LooseNull(data)
       THEN /\ clients' = mapClients(data.array)
            /\ Returned(c, data, Arr(mapClients(data.array)))
       ELSE /\ Returned(c, data, Arr(<<>>))
            /\ UNCHANGED clients
    /\ UNCHANGED <<user, projects, booking>>

NextClients ==
  \/ fetchClientsIssue
  \/ fetchClientsResponse

SpecClients == InitClients /\ [][NextClients]_vars

\* C18: fetchClients with a present response overwrites the cached clients
\* with exactly the id and name of every wire client, in wire order, and
\* returns that list; with an absent response (null or undefined) it
\* returns the empty list and does not raise.
C18_FetchClientsMapsInWireOrder ==
  [][Completed(ev', "fetchClients") =>
       /\ IsArr(ev'.data) =>
            /\ ev'.kind = "return"
            /\ Len(clients') = Len(ev'.data.array)
            /\ \A i \in 1..Len(clients') :
                 clients'[i] = [id |-> ev'.data.array[i].id,
                                name |-> ev'.data.array[i].name]
            /\ ev'.ret = Arr(clients')
       /\ ev'.data \in {Null, Undefined} =>
            /\ ev'.kind = "return"
            /\ ev'.ret = Arr(<<>>)]_vars

\* the response listed two clients, the higher id first, and the cache and
\* the returned list hold them in that order
C18_Witness ==
  /\ ev.op = "fetchClients"
  /\ ev.kind = "return"
  /\ IsArr(ev.data)
  /\ Len(ev.data.array) = 2
  /\ ev.data.array[1].id > ev.data.array[2].id
  /\ clients = <<[id |-> ev.data.array[1].id, name |-> ev.data.array[1].name],
                 [id |-> ev.data.array[2].id, name |-> ev.data.array[2].name]>>
  /\ ev.ret = Arr(clients)

---------------------------------------------------------------------------
(* fetchTimeEntriesOfDay: the query and the order of the result *)

\* calendar dates as formatDate renders them, by day since the epoch
DateNames == <<"1970-01-01", "1970-01-02", "1970-01-03", "1970-01-04">>

\* services/date formatDate: the calendar date of d
formatDate(d) == DateNames[(d \div 1440) + 1]

\* date-fns add(d, { days: n })
add(d, n) == d + n * 1440

\* entries of one day as the remote sends them: two stopped ones, a running
\* one without stop key that started before both, and a running one whose
\* stop key holds null
EntriesOfDay ==
  {[id |-> 1, description |-> "late", duration |-> 90, project_id |-> 1,
    start |-> "1970-01-01T09:00:00Z", stop |-> "1970-01-01T10:30:00Z"],
   [id |-> 2, description |-> "early", duration |-> 45, project_id |-> 7,
    start |-> "1970-01-01T08:15:00Z", stop |-> "1970-01-01T09:00:00Z"],
   [id |-> 3, description |-> "now", duration |-> 0 - 1, project_id |-> 1,
    start |-> "1970-01-01T08:15:00Z"],
   [id |-> 4, description |-> "null stop", duration |-> 0 - 1,
    project_id |-> 1, start |-> "1970-01-01T10:30:00Z", stop |-> NullStr]}

EntriesOfDayBodies ==
  {Failure} \cup {Arr(l) : l \in SeqUpTo(EntriesOfDay, MaxList + 1)}

\* project 1 is cached, project 7 is not
InitDay ==
  /\ user = InitialTogglState.user
  /\ clients = InitialTogglState.clients
  /\ projects = mapProjects(<<CHOOSE p \in WireProjects : p.id = 1>>, clients)
  /\ booking = InitialBookingState
  /\ inflight = EmptyBag
  /\ instance = 1
  /\ token = <<"token-1">>
  /\ ev = [kind |-> "init", op |-> "getInstance", data |-> Undefined,
           ret |-> Undefined, ordered |-> FALSE]

\* fetchTimeEntriesOfDay(day) up to the await of its request
fetchTimeEntriesOfDayRequest ==
  \E day \in Days :
    /\ CanIssue
    /\ inflight' = inflight (+)
         SetToBag({[op |-> "fetchTimeEntriesOfDay", ordered |-> FALSE,
                    params |-> [start_date |-> formatDate(day),
                                end_date |-> formatDate(add(day, 1))]]})
    /\ ev' = [kind |-> "invoke", op |-> "fetchTimeEntriesOfDay",
              data |-> [day |-> day,
                        params |-> [start_date |-> formatDate(day),
                                    end_date |-> formatDate(add(day, 1))]],
              ret |-> Undefined, ordered |-> FALSE]
    /\ UNCHANGED <<stores, singleton>>

\* fetchTimeEntriesOfDay from the await of its request on
fetchTimeEntriesOfDayResponse ==
  \E c \in Pending("fetchTimeEntriesOfDay"), data \in EntriesOfDayBodies :
    /\ Settled(c)
    /\ IF data = Failure
       THEN Raised(c, data)
       ELSE Returned(c, data, Arr(mapTimeEntries(data.array, projects)))
    /\ UNCHANGED stores

NextDay ==
  \/ fetchTimeEntriesOfDayRequest
  \/ fetchTimeEntriesOfDayResponse

SpecDay == InitDay /\ [][NextDay]_vars

\* the day since the epoch that the calendar date s names
DayOfName(s) == CHOOSE n \in 0..(Len(DateNames) - 1) : DateNames[n + 1] = s

Occurrences(s, x) == Cardinality({i \in 1..Len(s) : s[i] = x})

\* C19: fetchTimeEntriesOfDay(day) queries with start_date the calendar
\* date of day and end_date the calendar date one day later; it returns
\* the mapped entries of the response, every entry without a stop after
\* every entry with a stop whatever its start, the entries with a stop in
\* ascending order of start; it writes no store.
C19_DayQueryAndOrder ==
  [][/\ (ev'.op = "fetchTimeEntriesOfDay" /\ ev'.kind = "invoke") =>
          /\ DayOfName(ev'.data.params.start_date) = ev'.data.day \div 1440
          /\ DayOfName(ev'.data.params.end_date) =
               (ev'.data.day \div 1440) + 1
          /\ \E c \in DOMAIN inflight' :
               /\ c.params = ev'.data.params
               /\ inflight' = inflight (+) SetToBag({c})
          /\ stores' = stores
     /\ (ev'.op = "fetchTimeEntriesOfDay" /\ ev'.kind = "return") =>
          LET r == ev'.ret.array
              mapped == [i \in 1..Len(ev'.data.array) |->
                           mapTimeEntry(ev'.data.array[i], projects)]
          IN  /\ Len(r) = Len(mapped)
              /\ \A x \in Range(mapped) :
                   Occurrences(r, x) = Occurrences(mapped, x)
              /\ \A i, j \in 1..Len(r) :
                   i < j =>
                     /\ ~("stop" \notin DOMAIN r[i] /\ "stop" \in DOMAIN r[j])
                     /\ ("stop" \in DOMAIN r[i] /\ "stop" \in DOMAIN r[j]) =>
                          r[i].start <= r[j].start
              /\ stores' = stores]_vars

\* the response listed the running entry first, then the later and then
\* the earlier stopped entry; the result lists them in the opposite order
C19_Witness ==
  /\ ev.op = "fetchTimeEntriesOfDay"
  /\ ev.kind = "return"
  /\ Len(ev.data.array) = 3
  /\ <<ev.data.array[1].id, ev.data.array[2].id, ev.data.array[3].id>> =
       <<3, 1, 2>>
  /\ <<ev.ret.array[1].id, ev.ret.array[2].id, ev.ret.array[3].id>> =
       <<2, 1, 3>>
  /\ ev.ret.array[3].start < ev.ret.array[1].start + 1
  /\ "stop" \notin DOMAIN ev.ret.array[3]

\* C20: a store changes only in the step in which the operation that owns
\* it returns: user by fetchUser, clients by fetchClients, projects by
\* fetchProjects, the booking state by fetchActiveTimeEntry; no store
\* changes when an operation is called, when fetchTimeEntriesOfDay or
\* updateTimeEntry completes, when a request fails, or when fetchClients
\* or fetchProjects receives an absent response.
C20_OperationsWriteOwnSlotOnly ==
  [][/\ ev'.kind = "invoke" => stores' = stores
     /\ user' # user => ev'.op = "fetchUser" /\ ev'.kind = "return"
     /\ clients' # clients => ev'.op = "fetchClients" /\ ev'.kind = "return"
     /\ projects' # projects =>
          ev'.op = "fetchProjects" /\ ev'.kind = "return"
     /\ booking' # booking =>
          ev'.op = "fetchActiveTimeEntry" /\ ev'.kind = "return"
     /\ ev'.op \in {"fetchTimeEntriesOfDay", "updateTimeEntry"} =>
          stores' = stores
     /\ ev'.data = Failure => stores' = stores
     /\ (ev'.op \in {"fetchClients", "fetchProjects"} /\ LooseNull(ev'.data)) =>
          stores' = stores]_vars

\* every store is filled and fetchProjects has received an absent response
C20_Witness ==
  /\ ev.op = "fetchProjects"
  /\ ev.kind = "return"
  /\ ev.data = Null
  /\ user # Null
  /\ clients # <<>>
  /\ projects # <<>>
  /\ booking.entry # Undefined

====
